---- MODULE Spec2Model ----
(***************************************************************************)
(* A model of dariah_topics/postprocessing.py: the writers of the          *)
(* document-term matrix, doc2bow, and the three entry points that turn the *)
(* output of lda, Gensim and MALLET into one table.                        *)
(*                                                                         *)
(* Every public function is one call: the state before the call holds the  *)
(* arguments (and, for the writers, the output directory), the action is   *)
(* the whole function body, and the state after it holds what the call     *)
(* returned or raised and what it left on disk.                            *)
(***************************************************************************)
EXTENDS Integers, Sequences, FiniteSets, TLC

VARIABLES
    pc,         \* "ready" before the call, "done" after it
    call,       \* the arguments of the call
    outcome,    \* [kind |-> "none" | "returned" | "raised", ...]
    dirExists,  \* os.path.exists(path) of the output directory
    files,      \* the files of the output directory: name -> lines
    pre         \* the files of the output directory when the call started

vars == <<pc, call, outcome, dirExists, files, pre>>

(***************************************************************************)
(* Bounds of the model.                                                    *)
(***************************************************************************)
MaxDocId == 1
MaxTypeId == 2
MaxCount == 10
MaxRows == 3
SaveMaxRows == 2
MaxTopics == 2
MaxVocab == 3
MaxKeys == 3
MaxDocs == 2
MaxGroup == 3
MaxLen == 4

(***************************************************************************)
(* Python values.                                                          *)
(***************************************************************************)
None == [kind |-> "None"]

Returned(v) == [kind |-> "returned", value |-> v]
Raised(e) == [kind |-> "raised", error |-> e]
NoOutcome == [kind |-> "none"]

Range(s) == {s[i] : i \in 1..Len(s)}

RECURSIVE SumSeq(_)
SumSeq(s) == IF s = <<>> THEN 0 ELSE s[1] + SumSeq(Tail(s))

WriteFile(fs, name, lines) ==
    [n \in DOMAIN fs \cup {name} |-> IF n = name THEN lines ELSE fs[n]]

(***************************************************************************)
(* The document-term matrix.  The variant for large corpora has a          *)
(* MultiIndex (document_id, type_id) and one column, 0, of frequencies: a  *)
(* sequence of rows <<document_id, type_id, count>> with no index entry    *)
(* twice.  The other variant is a table, document labels by types.         *)
(***************************************************************************)
DocLabelPool == <<"document_one", "document_two", "document_three", "document_four">>
TypePool == <<"this", "is", "document", "one", "two">>

Counts == {1, MaxCount}
Entries == (0..MaxDocId) \X (0..MaxTypeId) \X Counts

SparseRows(k) ==
    {s \in [1..k -> Entries] :
        \A i, j \in 1..k : i < j => (s[i][1] # s[j][1] \/ s[i][2] # s[j][2])}

Sparse(rows) == [kind |-> "sparse", rows |-> rows]

DenseMatricesOf(d, t) ==
    {[kind |-> "dense", index |-> SubSeq(DocLabelPool, 1, d),
      columns |-> SubSeq(TypePool, 1, t), data |-> m] :
        m \in [1..d -> [1..t -> {0, 1}]]}

DenseMatrices ==
    UNION {DenseMatricesOf(d, t) : d \in 1..(MaxDocId + 1), t \in 1..MaxTypeId}

\* The matrix of the two documents "this is document one/two" with four
\* entries, (0,0), (0,1), (1,0) and (1,2), each of frequency 1.
ExampleMatrix ==
    Sparse(<<<<0, 0, 1>>, <<0, 1, 1>>, <<1, 0, 1>>, <<1, 2, 1>>>>)

\* isinstance(document_term_matrix.index, pd.MultiIndex)
IsMultiIndex(m) == m.kind = "sparse"

\* index.get_level_values(level): level 1 is document_id, level 2 is type_id
get_level_values(m, level) == [i \in 1..Len(m.rows) |-> m.rows[i][level]]

\* document_term_matrix[0]: the column of frequencies
column0(m) == [i \in 1..Len(m.rows) |-> m.rows[i][3]]

(***************************************************************************)
(* Text.  A line is a sequence of characters; str.format writes an         *)
(* integer as its decimal digits, and the maximum of no values (nan) as    *)
(* the three letters of nan.                                               *)
(***************************************************************************)
DigitChar == <<"0", "1", "2", "3", "4", "5", "6", "7", "8", "9">>

RECURSIVE FormatInt(_)
FormatInt(n) ==
    IF n < 10 THEN <<DigitChar[n + 1]>>
    ELSE FormatInt(n \div 10) \o <<DigitChar[(n % 10) + 1]>>

NaN == [kind |-> "nan"]

\* Index.max(): nan for an index with no entry
IndexMax(s) ==
    IF s = <<>> THEN NaN
    ELSE [kind |-> "int", value |-> CHOOSE x \in Range(s) : \A y \in Range(s) : y <= x]

Format(v) == IF v.kind = "nan" THEN <<"n", "a", "n">> ELSE FormatInt(v.value)

RECURSIVE JoinWith(_, _)
JoinWith(sep, fields) ==
    IF Len(fields) = 0 THEN <<>>
    ELSE IF Len(fields) = 1 THEN fields[1]
    ELSE fields[1] \o <<sep>> \o JoinWith(sep, Tail(fields))

BannerLine == <<"%%MatrixMarket matrix coordinate real general">>

(***************************************************************************)
(* _save_matrix_market: the banner, the header "docs types sum", and       *)
(* to_csv(sep=' ', header=None): a line "document_id type_id count" for    *)
(* every row, in row order.                                                *)
(***************************************************************************)
mm_header_count(m) ==
    JoinWith(" ", <<FormatInt(Cardinality(Range(get_level_values(m, 1)))),
                    FormatInt(Cardinality(Range(get_level_values(m, 2)))),
                    FormatInt(SumSeq(column0(m)))>>)

mm_header(m) ==
    JoinWith(" ", <<Format(IndexMax(get_level_values(m, 1))),
                    Format(IndexMax(get_level_values(m, 2))),
                    FormatInt(SumSeq(column0(m)))>>)

mm_data_no_index(m) ==
    [i \in 1..Len(m.rows) |-> FormatInt(m.rows[i][3])]

mm_data(m) ==
    [i \in 1..Len(m.rows) |->
        JoinWith(" ", <<FormatInt(m.rows[i][1]), FormatInt(m.rows[i][2]),
                        FormatInt(m.rows[i][3])>>)]

_save_matrix_market(m, fs) ==
    WriteFile(fs, "document_term_matrix.mm", <<BannerLine, mm_header(m)>> \o mm_data(m))

(***************************************************************************)
(* save_document_term_matrix.  to_csv writes a header line and a line of   *)
(* fields per row; pd.Series(dict).to_csv writes a line per item.          *)
(***************************************************************************)
to_csv(m) ==
    IF m.kind = "sparse"
    THEN <<<<"document_id", "type_id", "0">>>> \o
         [i \in 1..Len(m.rows) |-> [j \in 1..3 |-> FormatInt(m.rows[i][j])]]
    ELSE <<(<<"">> \o m.columns)>> \o
         [i \in 1..Len(m.index) |->
            <<m.index[i]>> \o [j \in 1..Len(m.columns) |-> FormatInt(m.data[i][j])]]

Dict(items) == [kind |-> "dict", items |-> items]

series_to_csv(d) == [i \in 1..Len(d.items) |-> <<d.items[i][1], FormatInt(d.items[i][2])>>]

\* bool(x) of None or a dict
Truthy(x) == x.kind = "dict" /\ Len(x.items) > 0

save_maps_condition(dids, tids) == Truthy(dids) /\ tids # None

save_document_term_matrix(m, dids, tids, matrix_market, fs) ==
    LET fs1 == IF ~matrix_market
               THEN WriteFile(fs, "document_term_matrix.csv", to_csv(m))
               ELSE fs
    IN
    IF IsMultiIndex(m) /\ ~matrix_market
    THEN IF save_maps_condition(dids, tids)
         THEN [files |-> WriteFile(WriteFile(fs1, "document_ids.csv", series_to_csv(dids)),
                                   "type_ids.csv", series_to_csv(tids)),
               outcome |-> Returned(None)]
         ELSE [files |-> fs1, outcome |-> Raised("ValueError")]
    ELSE IF IsMultiIndex(m) /\ matrix_market
    THEN [files |-> _save_matrix_market(m, fs1), outcome |-> Returned(None)]
    ELSE [files |-> fs1, outcome |-> Returned(None)]

DocumentIds == Dict([i \in 1..(MaxDocId + 1) |-> <<DocLabelPool[i], i - 1>>])
TypeIds == Dict([i \in 1..(MaxTypeId + 1) |-> <<TypePool[i], i - 1>>])

MapArgs(full) == {None, Dict(<<>>), full}

StaleLines == <<<<"stale">>>>
OutputFiles == {"document_term_matrix.csv", "document_term_matrix.mm",
                "document_ids.csv", "type_ids.csv"}
NoFiles == [n \in {} |-> StaleLines]

InitSave ==
    /\ pc = "ready"
    /\ call = [op |-> "none"]
    /\ outcome = NoOutcome
    /\ dirExists \in BOOLEAN
    /\ files \in {NoFiles} \cup
                 (IF dirExists THEN {[n \in OutputFiles |-> StaleLines]} ELSE {})
    /\ pre = files

SaveDocumentTermMatrix(m) ==
    /\ \E dids \in MapArgs(DocumentIds), tids \in MapArgs(TypeIds), mm \in BOOLEAN :
         LET r == save_document_term_matrix(m, dids, tids, mm, files) IN
         /\ call' = [op |-> "save_document_term_matrix", document_term_matrix |-> m,
                     document_ids |-> dids, type_ids |-> tids, matrix_market |-> mm]
         /\ files' = r.files
         /\ outcome' = r.outcome
    /\ dirExists' = TRUE
    /\ pc' = "done"
    /\ UNCHANGED pre

SaveSparse ==
    /\ pc = "ready"
    /\ \/ \E k \in 0..SaveMaxRows : \E rows \in SparseRows(k) :
            SaveDocumentTermMatrix(Sparse(rows))
       \/ SaveDocumentTermMatrix(ExampleMatrix)

SaveDense ==
    /\ pc = "ready"
    /\ \E m \in DenseMatrices : SaveDocumentTermMatrix(m)

NextSave == SaveSparse \/ SaveDense

SpecSave == InitSave /\ [][NextSave]_vars

(***************************************************************************)
(* doc2bow.  Index.groupby returns a dict from each document_id to its     *)
(* index entries; pandas builds it from the categories of the ids, which   *)
(* are the distinct ids in ascending order, and enumerate() walks its keys *)
(* in that order.  .loc[document] keeps the rows of the document in the    *)
(* order of the matrix, with type_id as the index.                         *)
(***************************************************************************)
RECURSIVE SortedSeq(_)
SortedSeq(S) ==
    IF S = {} THEN <<>>
    ELSE LET lo == CHOOSE x \in S : \A y \in S : x <= y
         IN <<lo>> \o SortedSeq(S \ {lo})

RECURSIVE FirstSeen(_)
FirstSeen(s) ==
    IF s = <<>> THEN <<>>
    ELSE LET front == FirstSeen(SubSeq(s, 1, Len(s) - 1))
         IN IF s[Len(s)] \in Range(front) THEN front ELSE Append(front, s[Len(s)])

groupby_keys_first_seen(ids) == FirstSeen(ids)

groupby_keys(ids) == SortedSeq(Range(ids))

loc(m, document) == SelectSeq(m.rows, LAMBDA r : r[1] = document)

doc2bow(m) ==
    LET keys == groupby_keys(get_level_values(m, 1)) IN
    [n \in 1..Len(keys) |->
        LET part == loc(m, keys[n]) IN
        [i \in 1..Len(part) |-> <<part[i][2], part[i][3]>>]]

InitBow ==
    /\ pc = "ready"
    /\ \E k \in 0..MaxRows : \E rows \in SparseRows(k) :
         call = [op |-> "doc2bow", document_term_matrix |-> Sparse(rows)]
    /\ outcome = NoOutcome
    /\ dirExists = FALSE
    /\ files = NoFiles
    /\ pre = NoFiles

Doc2Bow ==
    /\ pc = "ready"
    /\ call.op = "doc2bow"
    /\ outcome' = Returned(doc2bow(call.document_term_matrix))
    /\ pc' = "done"
    /\ UNCHANGED <<call, dirExists, files, pre>>

NextBow == Doc2Bow

SpecBow == InitBow /\ [][NextBow]_vars

(***************************************************************************)
(* Tables.  pd.DataFrame(rows, index=, columns=) of a list of rows: the    *)
(* width of the data is the length of the longest row, shorter rows are    *)
(* filled with None, and a width other than the number of column labels,   *)
(* or a number of rows other than the number of index labels, is an error. *)
(***************************************************************************)
NoneCell == <<"None">>

Min(a, b) == IF a <= b THEN a ELSE b

Width(rows) ==
    IF rows = <<>> THEN 0
    ELSE LET n == CHOOSE i \in 1..Len(rows) : \A j \in 1..Len(rows) : Len(rows[j]) <= Len(rows[i])
         IN Len(rows[n])

Table(index, columns, data) ==
    [kind |-> "DataFrame", index |-> index, columns |-> columns, data |-> data]

DataFrame(rows, index, columns) ==
    IF rows # <<>> /\ Width(rows) # Len(columns) THEN Raised("ValueError")
    ELSE IF Len(index) # Len(rows) THEN Raised("ValueError")
    ELSE Returned(Table(index, columns,
            [i \in 1..Len(rows) |->
                [j \in 1..Len(columns) |->
                    IF j <= Len(rows[i]) THEN rows[i][j] ELSE NoneCell]]))

\* DataFrame.T
Transpose(t) ==
    Table(t.columns, t.index,
          [i \in 1..Len(t.columns) |-> [j \in 1..Len(t.index) |-> t.data[j][i]]])

\* 'Topic {}'.format(n), 'Key {}'.format(n)
Label(word, n) == <<word, " ">> \o FormatInt(n)

TopicIndex(n) == [i \in 1..n |-> Label("Topic", i - 1)]
KeyColumns(n) == [i \in 1..n |-> Label("Key", i - 1)]

(***************************************************************************)
(* The models.  An lda model has the arrays topic_word_ (T x V),           *)
(* doc_topic_ (D x T) and components_ (T x V).  A Gensim model (LdaModel   *)
(* or LdaMulticore) answers show_topics and show_topic with the words of a *)
(* topic ranked by weight, and get_document_topics with the topics of a    *)
(* document that it does not omit.  A string is a sequence of characters;  *)
(* a word of the vocabulary is one character of the model.                 *)
(***************************************************************************)
Weights == {1, 2}

List(items) == [kind |-> "list", items |-> items]

Word(i) == <<TypePool[i]>>
Vocabulary(v) == [i \in 1..v |-> Word(i)]

Perms(n) == {p \in [1..n -> 1..n] : \A i, j \in 1..n : i < j => p[i] # p[j]}

\* The numbers 1..v, from k on and around.
Rotation(v, k) == [i \in 1..v |-> ((k + i - 2) % v) + 1]

LDA(topic_word, doc_topic, components) ==
    [kind |-> "LDA", topic_word_ |-> topic_word, doc_topic_ |-> doc_topic,
     components_ |-> components]

Gensim(class, topics, document_topics) ==
    [kind |-> class, num_topics |-> Len(topics), topics |-> topics,
     document_topics |-> document_topics]

GensimClasses == {"LdaModel", "LdaMulticore"}

\* An object of a class that is neither LDA nor LdaModel nor LdaMulticore.
OtherModel == [kind |-> "other"]

isinstance(model, classes) == model.kind \in classes

\* np.argsort(distribution): a permutation that puts the weights in
\* ascending order; the default sort is not stable, so that the order of
\* equal weights is any.
argsort(distribution) ==
    {p \in Perms(Len(distribution)) :
        \A i \in 1..(Len(distribution) - 1) : distribution[p[i]] <= distribution[p[i + 1]]}

\* s[:length]: the first `length` elements of s.
FirstInOrder(s, length) ==
    [j \in 1..Min(length, Len(s)) |-> s[j]]

\* s[:-length-1:-1]: the last `length` elements of s, the last one first.
LastReversed(s, length) ==
    [j \in 1..Min(length, Len(s)) |-> s[Len(s) - j + 1]]

\* np.array(values)[order][:-length-1:-1]
get_sorted_values_from_distribution(values, order, length) ==
    LastReversed([i \in 1..Len(order) |-> values[order[i]]], length)

\* The sequences whose n-th element is of the n-th set.
RECURSIVE Product(_)
Product(sets) ==
    IF sets = <<>> THEN {<<>>}
    ELSE {<<x>> \o rest : x \in sets[1], rest \in Product(Tail(sets))}

\* The outcomes of _show_lda_topics, one for each way argsort may order
\* the equal weights of the topics.
_show_lda_topics(model, vocabulary, num_keys) ==
    LET topic_word == model.topic_word_ IN
    IF vocabulary = None
       \/ \E t \in 1..Len(topic_word) : Len(topic_word[t]) > Len(vocabulary.items)
    THEN {Raised("IndexError")}
    ELSE {DataFrame(topics, TopicIndex(Len(topic_word)), KeyColumns(num_keys)) :
            topics \in Product([t \in 1..Len(topic_word) |->
                {get_sorted_values_from_distribution(vocabulary.items, order, num_keys) :
                    order \in argsort(topic_word[t])}])}

\* model.show_topics(formatted=False, num_words=num_keys), for a model of
\* at most ten topics: every topic, with its num_words first words.
gensim_show_topics(model, num_words) ==
    [t \in 1..Len(model.topics) |->
        <<t - 1, SubSeq(model.topics[t], 1, Min(num_words, Len(model.topics[t])))>>]

_show_gensim_topics(model, num_keys) ==
    LET shown == gensim_show_topics(model, num_keys)
        topics == [n \in 1..Len(shown) |->
                      [i \in 1..Len(shown[n][2]) |-> shown[n][2][i][1]]]
    IN DataFrame(topics, TopicIndex(Len(topics)), KeyColumns(num_keys))

(***************************************************************************)
(* Text files.  str.split(sep) and str.rstrip().                           *)
(***************************************************************************)
RECURSIVE split(_, _)
split(line, sep) ==
    IF \A i \in 1..Len(line) : line[i] # sep THEN <<line>>
    ELSE LET k == CHOOSE i \in 1..Len(line) :
                    line[i] = sep /\ \A j \in 1..(i - 1) : line[j] # sep
         IN <<SubSeq(line, 1, k - 1)>> \o split(SubSeq(line, k + 1, Len(line)), sep)

Whitespace == {" ", "\t", "\n"}

RECURSIVE rstrip(_)
rstrip(line) ==
    IF line # <<>> /\ line[Len(line)] \in Whitespace
    THEN rstrip(SubSeq(line, 1, Len(line) - 1))
    ELSE line

File(lines) == [kind |-> "file", lines |-> lines]

_show_mallet_topics(topic_keys_file) ==
    IF \E n \in 1..Len(topic_keys_file.lines) :
          Len(split(topic_keys_file.lines[n], "\t")) # 3
    THEN Raised("ValueError")
    ELSE LET topics == [n \in 1..Len(topic_keys_file.lines) |->
                          split(rstrip(split(topic_keys_file.lines[n], "\t")[3]), " ")]
         IN IF topics = <<>> THEN Raised("IndexError")
            ELSE DataFrame(topics, TopicIndex(Len(topics)), KeyColumns(Len(topics[1])))

(***************************************************************************)
(* show_topics: the set of its outcomes.  With no branch taken the         *)
(* function ends without a return statement and returns None.              *)
(***************************************************************************)
show_topics(model, vocabulary, topic_keys_file, num_keys) ==
    IF isinstance(model, {"LDA"})
    THEN _show_lda_topics(model, vocabulary, num_keys)
    ELSE IF isinstance(model, {"LdaModel"}) \/ isinstance(model, {"LdaMulticore"})
    THEN {_show_gensim_topics(model, num_keys)}
    ELSE IF topic_keys_file # None
    THEN {_show_mallet_topics(topic_keys_file)}
    ELSE {Returned(None)}

(***************************************************************************)
(* The arguments of show_topics.  A topic-keys file of MALLET has a line   *)
(* "topic_id <TAB> alpha <TAB> keys joined by spaces" for every topic; the *)
(* last line may lack its line end.                                        *)
(***************************************************************************)
RankedTopic(p) == [i \in 1..Len(p) |-> <<Word(p[i]), Len(p) - i + 1>>]

KeysOfTopic(n, k) == [i \in 1..k |-> Word(((i + n - 1) % Len(TypePool)) + 1)]

KeysLine(n, k, newline) ==
    FormatInt(n) \o <<"\t", "0", ".", "5", "\t">> \o JoinWith(" ", KeysOfTopic(n, k))
        \o (IF newline THEN <<"\n">> ELSE <<>>)

TopicKeysFile(counts, newline) ==
    File([n \in 1..Len(counts) |->
            KeysLine(n - 1, counts[n], n < Len(counts) \/ newline)])

TopicsCall(model, vocabulary, topic_keys_file, num_keys) ==
    [op |-> "show_topics", model |-> model, vocabulary |-> vocabulary,
     topic_keys_file |-> topic_keys_file, num_keys |-> num_keys]

Idle ==
    /\ pc = "ready"
    /\ outcome = NoOutcome
    /\ dirExists = FALSE
    /\ files = NoFiles
    /\ pre = NoFiles

\* The weights of t topics: the first topic has the weights `first`, where
\* words may weigh the same, every other topic has weights that differ.
TopicWord(t, first, k) ==
    [n \in 1..t |-> IF n = 1 THEN first ELSE Rotation(Len(first), ((k + n - 2) % Len(first)) + 1)]

\* The three ways the docstring of show_topics names: an lda model with
\* the vocabulary, a Gensim model alone, a topic-keys file alone.
InitTopics ==
    /\ Idle
    /\ \E num_keys \in 1..MaxKeys :
        \/ \E t \in 1..MaxTopics, v \in 1..MaxVocab :
             \E first \in [1..v -> Weights], k \in 1..v :
                call = TopicsCall(LDA(TopicWord(t, first, k), <<>>, <<>>),
                                  List(Vocabulary(v)), None, num_keys)
        \/ \E t \in 1..MaxTopics, v \in 1..MaxVocab, class \in GensimClasses :
             \E ps \in [1..t -> Perms(v)] :
                call = TopicsCall(Gensim(class, [n \in 1..t |-> RankedTopic(ps[n])], <<>>),
                                  None, None, num_keys)
        \/ \E t \in 0..MaxTopics, newline \in BOOLEAN :
             \E counts \in [1..t -> 1..MaxKeys] :
                call = TopicsCall(None, None, TopicKeysFile(counts, newline), num_keys)

ShowTopics ==
    /\ pc = "ready"
    /\ call.op = "show_topics"
    /\ outcome' \in show_topics(call.model, call.vocabulary, call.topic_keys_file,
                                call.num_keys)
    /\ pc' = "done"
    /\ UNCHANGED <<call, dirExists, files, pre>>

NextTopics == ShowTopics

SpecTopics == InitTopics /\ [][NextTopics]_vars

(***************************************************************************)
(* show_document_topics for lda and Gensim.  Proportions are written in    *)
(* percent.                                                                *)
(***************************************************************************)
Props == {25, 75}
ZeroProp == 0

\* The label of the i-th row of a table made without index labels.
RangeLabel(i) == <<"RangeIndex", i>>

\* [' '.join(keys[:num_keys]) for keys in topics.values]
TopicLabels(topics, num_keys) ==
    [n \in 1..Len(topics.data) |->
        JoinWith(" ", SubSeq(topics.data[n], 1, Min(num_keys, Len(topics.data[n]))))]

\* pd.DataFrame(model.doc_topic_, index=document_labels, columns=index).T
_show_lda_document_topics(model, document_labels, index) ==
    LET frame == DataFrame(model.doc_topic_,
                           IF document_labels = None
                           THEN [i \in 1..Len(model.doc_topic_) |-> RangeLabel(i - 1)]
                           ELSE document_labels.items,
                           index)
    IN IF frame.kind = "raised" THEN frame ELSE Returned(Transpose(frame.value))

\* The proportion of the first pair of document n, whatever its topic.
CellOfFirstPair(distribution, topic) ==
    IF distribution = <<>> THEN ZeroProp ELSE distribution[1][2]

\* The cell (topic, n) after the loops of lines 372-374: the proportion
\* of the last pair of document n that names the topic, 0.0 with none.
CellOf(distribution, topic) ==
    LET at == {k \in 1..Len(distribution) : distribution[k][1] = topic} IN
    IF at = {} THEN ZeroProp
    ELSE distribution[CHOOSE k \in at : \A j \in at : j <= k][2]

_show_gensim_document_topics(bows, model, document_labels, index) ==
    IF document_labels = None \/ bows = None THEN Raised("TypeError")
    ELSE LET num_topics == model.num_topics
             num_documents == Len(document_labels.items)
             distributions == [n \in 1..Len(bows.items) |-> model.document_topics[bows.items[n]]]
         IN IF \E n \in 1..Len(distributions) :
                  distributions[n] # <<>> /\ n > num_documents
            THEN Raised("IndexError")
            ELSE DataFrame([t \in 1..num_topics |->
                              [n \in 1..num_documents |->
                                 IF n <= Len(distributions)
                                 THEN CellOf(distributions[n], t - 1)
                                 ELSE ZeroProp]],
                           index, document_labels.items)

(***************************************************************************)
(* _grouper and _show_mallet_document_topics.  A doc-topics file of MALLET *)
(* has either a line "doc <TAB> path <TAB> weight ... " per document, or a *)
(* first line that starts with # and then lines "doc <TAB> path <TAB>      *)
(* topic <TAB> share ...".                                                 *)
(***************************************************************************)
\* zip(*[iter(iterable)] * n): the full groups only.
_grouper_zip(n, iterable, fillvalue) ==
    [i \in 1..(Len(iterable) \div n) |-> [j \in 1..n |-> iterable[(i - 1) * n + j]]]

\* itertools.zip_longest(*[iter(iterable)] * n, fillvalue=fillvalue)
_grouper(n, iterable, fillvalue) ==
    [i \in 1..((Len(iterable) + n - 1) \div n) |->
        [j \in 1..n |->
            IF (i - 1) * n + j <= Len(iterable)
            THEN iterable[(i - 1) * n + j]
            ELSE fillvalue]]

\* The arguments of _grouper: the fields of a line after the path, as the
\* parser passes them, with the fill value None or one the caller names.
Str(chars) == [kind |-> "str", value |-> chars]

GrouperValues == {Str(<<"0">>), Str(<<"1">>)}

\* fillvalue=None, the default, or a string of the caller.
FillValue(default) == IF default THEN None ELSE Str(<<"fill">>)

InitGrouper ==
    /\ Idle
    /\ \E n \in 1..MaxGroup, length \in 0..MaxLen, default \in BOOLEAN :
         \E iterable \in [1..length -> GrouperValues] :
            call = [op |-> "_grouper", n |-> n, iterable |-> iterable,
                    fillvalue |-> FillValue(default)]

\* The iterator of _grouper, read to its end.
Grouper ==
    /\ pc = "ready"
    /\ call.op = "_grouper"
    /\ outcome' = Returned(List(_grouper(call.n, call.iterable, call.fillvalue)))
    /\ pc' = "done"
    /\ UNCHANGED <<call, dirExists, files, pre>>

NextGrouper == Grouper

SpecGrouper == InitGrouper /\ [][NextGrouper]_vars

RECURSIVE lstrip(_)
lstrip(line) ==
    IF line # <<>> /\ line[1] \in Whitespace THEN lstrip(Tail(line)) ELSE line

startswith(line, prefix) == line # <<>> /\ line[1] = prefix

\* int(x) and float(x) of a string of digits
RECURSIVE py_int(_)
py_int(chars) ==
    LET d == CHOOSE d \in 0..9 : DigitChar[d + 1] = chars[Len(chars)] IN
    IF Len(chars) = 1 THEN d
    ELSE 10 * py_int(SubSeq(chars, 1, Len(chars) - 1)) + d

py_float(chars) == py_int(chars)

\* os.path.basename(path)
basename(path) == LET parts == split(path, "/") IN parts[Len(parts)]

\* os.path.splitext(name)[0]
splitext_root(name) ==
    LET dots == {i \in 2..Len(name) : name[i] = "."} IN
    IF dots = {} THEN name
    ELSE SubSeq(name, 1, (CHOOSE i \in dots : \A j \in dots : j <= i) - 1)

\* The label with its extension left on.
StripLabelKeepsExtension(path) == basename(path)

StripLabel(path) == splitext_root(basename(path))

\* The order of the characters, for sorted().
CharOrder ==
    <<"\t", "\n", " ", "#", ".", "/", "0", "1", "2", "3", "4", "5", "6", "7", "8", "9",
      "corpus", "doc", "document_four", "document_one", "document_three", "document_two",
      "name", "proportion", "topic", "txt">>

CharRank(c) == CHOOSE i \in 1..Len(CharOrder) : CharOrder[i] = c

RECURSIVE StrLess(_, _)
StrLess(a, b) ==
    IF b = <<>> THEN FALSE
    ELSE IF a = <<>> THEN TRUE
    ELSE IF a[1] = b[1] THEN StrLess(Tail(a), Tail(b))
    ELSE CharRank(a[1]) < CharRank(b[1])

\* sorted(triples, key=operator.itemgetter(0, 1)): a stable sort.
TripleBefore(x, i, y, j) ==
    \/ StrLess(x[1], y[1])
    \/ x[1] = y[1] /\ x[2] < y[2]
    \/ x[1] = y[1] /\ x[2] = y[2] /\ i < j

SortedTriples(triples) ==
    [k \in 1..Len(triples) |->
        triples[CHOOSE i \in 1..Len(triples) :
            Cardinality({j \in 1..Len(triples) :
                TripleBefore(triples[j], j, triples[i], i)}) = k - 1]]

\* pd.read_table(doc_topics_file, sep='\t', header=None) and lines 528-531
NanCell == <<"NaN">>

RemoveLineEnd(line) ==
    IF line # <<>> /\ line[Len(line)] = "\n" THEN SubSeq(line, 1, Len(line) - 1) ELSE line

read_easy_format(doc_topics_file, index) ==
    LET kept == SelectSeq(doc_topics_file.lines, LAMBDA line : RemoveLineEnd(line) # <<>>)
        rows == [i \in 1..Len(kept) |-> split(RemoveLineEnd(kept[i]), "\t")]
    IN IF rows = <<>> THEN Raised("EmptyDataError")
       ELSE IF \E i \in 1..Len(rows) : Len(rows[i]) > Len(rows[1]) THEN Raised("ParserError")
       ELSE IF Len(rows[1]) < 2 THEN Raised("KeyError")
       ELSE IF \E i \in 1..Len(rows) : Len(rows[i]) < 2 THEN Raised("TypeError")
       ELSE IF Len(rows[1]) - 2 # Len(index) THEN Raised("ValueError")
       ELSE Returned(Transpose(Table(
                [i \in 1..Len(rows) |-> StripLabel(rows[i][2])],
                index,
                [i \in 1..Len(rows) |->
                    [j \in 1..(Len(rows[1]) - 2) |->
                        IF j + 2 <= Len(rows[i]) THEN py_float(rows[i][j + 2]) ELSE NanCell]])))

\* Lines 516-522 for one line: the error it raises, if any.
SparseLineError(line) ==
    LET fields == split(rstrip(line), "\t") IN
    IF Len(fields) < 2 THEN "ValueError"
    ELSE IF (Len(fields) - 2) % 2 = 1 THEN "TypeError"
    ELSE "none"

SparseLineTriples(line) ==
    LET fields == split(rstrip(line), "\t")
        pairs == _grouper(2, SubSeq(fields, 3, Len(fields)), None)
    IN [k \in 1..Len(pairs) |-> <<fields[2], py_int(pairs[k][1]), py_float(pairs[k][2])>>]

RECURSIVE Concat(_)
Concat(ss) == IF ss = <<>> THEN <<>> ELSE ss[1] \o Concat(Tail(ss))

\* Lines 533-542: the name columns is bound nowhere, so that line 542
\* raises NameError when the lines before it raise nothing.
sparse_format_table(rest, index) ==
    LET triples == SortedTriples(Concat([n \in 1..Len(rest) |-> SparseLineTriples(rest[n])]))
        document_labels ==
            [n \in 1..Len(rest) |-> StripLabel(split(rstrip(rest[n]), "\t")[2])]
        num_topics == Len(triples)
        Fails(k) == triples[k][1] \notin Range(document_labels) \/ triples[k][2] >= num_topics
    IN IF \E k \in 1..Len(triples) : Fails(k)
       THEN LET k == CHOOSE k \in 1..Len(triples) :
                        Fails(k) /\ \A j \in 1..(k - 1) : ~Fails(j)
            IN IF triples[k][1] \notin Range(document_labels)
               THEN Raised("ValueError") ELSE Raised("IndexError")
       ELSE Raised("NameError")

_show_mallet_document_topics(doc_topics_file, index, easy_file_format) ==
    LET lines == doc_topics_file.lines
        commented == lines # <<>> /\ startswith(lstrip(lines[1]), "#")
        rest == IF commented THEN Tail(lines) ELSE <<>>
        bad == {n \in 1..Len(rest) : SparseLineError(rest[n]) # "none"}
        easy == IF lines = <<>> \/ commented THEN easy_file_format ELSE TRUE
    IN IF bad # {}
       THEN Raised(SparseLineError(rest[CHOOSE n \in bad : \A m \in bad : n <= m]))
       ELSE IF easy THEN read_easy_format(doc_topics_file, index)
       ELSE sparse_format_table(rest, index)

(***************************************************************************)
(* show_document_topics.  With no branch taken it returns None.            *)
(***************************************************************************)
show_document_topics(topics, model, document_labels, doc_topics_file, bows, num_keys, easy_file_format) ==
    LET index == TopicLabels(topics, num_keys) IN
    IF isinstance(model, {"LDA"})
    THEN _show_lda_document_topics(model, document_labels, index)
    ELSE IF isinstance(model, {"LdaModel"}) \/ isinstance(model, {"LdaMulticore"})
    THEN _show_gensim_document_topics(bows, model, document_labels, index)
    ELSE IF doc_topics_file # None
    THEN _show_mallet_document_topics(doc_topics_file, index, easy_file_format)
    ELSE Returned(None)

(***************************************************************************)
(* The arguments of show_document_topics.                                  *)
(***************************************************************************)
\* The table show_topics made for t topics.
TopicsTable(t) ==
    Table(TopicIndex(t), KeyColumns(MaxKeys), [n \in 1..t |-> KeysOfTopic(n - 1, MaxKeys)])

DocLabel(i) == <<DocLabelPool[i]>>

\* The bag of words of document i: a list of (type_id, count).
Bow(i) == <<<<i - 1, 1>>>>

\* The proportion of topic t in document i, for Gensim and the files.
Prop(i, t) == 10 * i + t

\* get_document_topics of document i: the topics of 1..t not in omitted,
\* as pairs (topic_id, proportion).
SparseDistribution(i, t, omitted) ==
    LET kept == SortedSeq({n \in 1..t : <<i, n>> \notin omitted})
    IN [k \in 1..Len(kept) |-> <<kept[k] - 1, Prop(i, kept[k])>>]

GensimDocumentTopics(d, t, omitted) ==
    [b \in {Bow(i) : i \in 1..d} |->
        SparseDistribution(CHOOSE i \in 1..d : Bow(i) = b, t, omitted)]

DocPath(i, decorated) ==
    IF decorated THEN <<"corpus", "/", DocLabelPool[i], ".", "txt">> ELSE <<DocLabelPool[i]>>

LineEnd(newline) == IF newline THEN <<"\n">> ELSE <<>>

EasyLine(n, i, t, decorated, newline) ==
    FormatInt(n) \o <<"\t">> \o DocPath(i, decorated)
        \o Concat([k \in 1..t |-> <<"\t">> \o FormatInt(Prop(i, k))]) \o LineEnd(newline)

SparseLine(n, i, t, omitted, decorated, newline) ==
    LET pairs == SparseDistribution(i, t, omitted) IN
    FormatInt(n) \o <<"\t">> \o DocPath(i, decorated)
        \o Concat([k \in 1..Len(pairs) |->
                     <<"\t">> \o FormatInt(pairs[k][1]) \o <<"\t">> \o FormatInt(pairs[k][2])])
        \o LineEnd(newline)

CommentLine == <<"#", "doc", " ", "name", " ", "topic", " ", "proportion", "\n">>
BlankLine == <<"\n">>

\* The file of the documents order[1], order[2], ... with t topics.
DocTopicsFile(layout, blank, order, t, omitted, decorated, newline) ==
    File((IF blank THEN <<BlankLine>> ELSE <<>>)
         \o (IF layout = "sparse" THEN <<CommentLine>> ELSE <<>>)
         \o [n \in 1..Len(order) |->
               IF layout = "sparse"
               THEN SparseLine(n - 1, order[n], t, omitted, decorated, n < Len(order) \/ newline)
               ELSE EasyLine(n - 1, order[n], t, decorated, n < Len(order) \/ newline)])

DocTopicsCall(topics, model, document_labels, doc_topics_file, bows, num_keys, easy) ==
    [op |-> "show_document_topics", topics |-> topics, model |-> model,
     document_labels |-> document_labels, doc_topics_file |-> doc_topics_file,
     doc2bow |-> bows, num_keys |-> num_keys, easy_file_format |-> easy]

\* The three ways the docstring names: an lda model, a Gensim model with
\* doc2bow, both with the document labels, and a doc-topics file alone.
InitDocTopics ==
    /\ Idle
    /\ \E t \in 1..MaxTopics, num_keys \in {1, MaxKeys} :
        \/ \E d \in 1..MaxDocs : \E order \in Perms(d) :
             \E doc_topic \in [1..d -> [1..t -> Props]] :
                call = DocTopicsCall(TopicsTable(t), LDA(<<>>, doc_topic, <<>>),
                                     List([n \in 1..d |-> DocLabel(order[n])]),
                                     None, None, num_keys, TRUE)
        \/ \E d \in 1..MaxDocs, class \in GensimClasses : \E order \in Perms(d) :
             \E omitted \in SUBSET ((1..d) \X (1..t)) :
                call = DocTopicsCall(TopicsTable(t),
                                     Gensim(class, [n \in 1..t |-> <<>>],
                                            GensimDocumentTopics(d, t, omitted)),
                                     List([n \in 1..d |-> DocLabel(order[n])]),
                                     None,
                                     List([n \in 1..d |-> Bow(order[n])]),
                                     num_keys, TRUE)
        \/ \E d \in 0..MaxDocs, layout \in {"easy", "sparse"},
              blank, decorated, newline, easy \in BOOLEAN : \E order \in Perms(d) :
             \E omitted \in SUBSET ((1..d) \X (1..t)) :
                /\ layout = "easy" => omitted = {}
                /\ call = DocTopicsCall(TopicsTable(t), None, None,
                                        DocTopicsFile(layout, blank, order, t, omitted,
                                                      decorated, newline),
                                        None, num_keys, easy)

ShowDocumentTopics ==
    /\ pc = "ready"
    /\ call.op = "show_document_topics"
    /\ outcome' = show_document_topics(call.topics, call.model, call.document_labels,
                                       call.doc_topics_file, call.doc2bow, call.num_keys,
                                       call.easy_file_format)
    /\ pc' = "done"
    /\ UNCHANGED <<call, dirExists, files, pre>>

NextDocTopics == ShowDocumentTopics

SpecDocTopics == InitDocTopics /\ [][NextDocTopics]_vars

(***************************************************************************)
(* show_topic_key_weights.  A dict is the sequence of its items in the     *)
(* order of insertion, and pd.Series(dict) keeps that order.  Weights are  *)
(* whole numbers.                                                          *)
(***************************************************************************)
Bool(b) == [kind |-> "bool", value |-> b]

Series(items) == [kind |-> "Series", items |-> items]

\* dict(pairs): a key stays where it first came, with its last value.
to_dict(pairs) ==
    LET first == {i \in 1..Len(pairs) : \A j \in 1..(i - 1) : pairs[j][1] # pairs[i][1]}
        order == SortedSeq(first)
        LastOf(key) == CHOOSE i \in 1..Len(pairs) :
                          pairs[i][1] = key /\ \A j \in (i + 1)..Len(pairs) : pairs[j][1] # key
    IN [k \in 1..Len(order) |-> <<pairs[order[k]][1], pairs[LastOf(pairs[order[k]][1])][2]>>]

\* zip(vocabulary, model.components_[topic_no]): every word with its weight.
_show_lda_key_weights_all(model, vocabulary, topic_no, num_keys) ==
    IF model.kind # "LDA" THEN Raised("AttributeError")
    ELSE IF topic_no >= Len(model.components_) THEN Raised("IndexError")
    ELSE LET row == model.components_[topic_no + 1]
             n == Min(Len(vocabulary.items), Len(row))
         IN Returned(to_dict([i \in 1..n |-> <<vocabulary.items[i], row[i]>>]))

\* zip(vocabulary[:num_keys], model.components_[topic_no][:num_keys])
_show_lda_key_weights(model, vocabulary, topic_no, num_keys) ==
    IF model.kind # "LDA" THEN Raised("AttributeError")
    ELSE IF topic_no >= Len(model.components_) THEN Raised("IndexError")
    ELSE LET row == model.components_[topic_no + 1]
             n == Min(num_keys, Min(Len(vocabulary.items), Len(row)))
         IN Returned(to_dict([i \in 1..n |-> <<vocabulary.items[i], row[i]>>]))

\* model.show_topic(topic_no, num_keys): the num_keys first words of the
\* topic, ranked by weight, with their weights.
gensim_show_topic(model, topic_no, topn) ==
    SubSeq(model.topics[topic_no + 1], 1, Min(topn, Len(model.topics[topic_no + 1])))

_show_gensim_key_weights(model, topic_no, num_keys) ==
    IF model.kind \notin GensimClasses THEN Raised("AttributeError")
    ELSE IF topic_no >= model.num_topics THEN Raised("IndexError")
    ELSE Returned(to_dict(gensim_show_topic(model, topic_no, num_keys)))

\* pd.read_table(..., names=['topic_id', 'key', 'weight']) of a file whose
\* lines hold three fields, then the rows of topic_no as a dict.
_show_mallet_key_weights(topic_word_weights_file, topic_no) ==
    LET lines == topic_word_weights_file.lines
        key_weights == [n \in 1..Len(lines) |-> split(RemoveLineEnd(lines[n]), "\t")]
        selected == SelectSeq(key_weights, LAMBDA row : py_int(row[1]) = topic_no)
    IN Returned(to_dict([k \in 1..Len(selected) |->
                            <<selected[k][2], py_float(selected[k][3])>>]))

\* Series.sort_values(ascending=...): the default sort is not stable, so
\* that the order of equal weights is any.
sort_values(items, ascending) ==
    {[k \in 1..Len(items) |-> items[p[k]]] : p \in
        {p \in Perms(Len(items)) :
            \A k \in 1..(Len(items) - 1) :
                IF ascending THEN items[p[k]][2] <= items[p[k + 1]][2]
                ELSE items[p[k]][2] >= items[p[k + 1]][2]}}

\* series[:num_keys]
Slice(items, n) == SubSeq(items, 1, Min(n, Len(items)))

\* The set of the outcomes of show_topic_key_weights.
show_topic_key_weights(topic_no, num_keys, model, vocabulary, topic_word_weights_file, sort_ascending) ==
    LET key_weights ==
            IF vocabulary # None /\ topic_word_weights_file = None
            THEN _show_lda_key_weights(model, vocabulary, topic_no, num_keys)
            ELSE IF vocabulary = None /\ topic_word_weights_file = None
            THEN _show_gensim_key_weights(model, topic_no, num_keys)
            ELSE _show_mallet_key_weights(topic_word_weights_file, topic_no)
    IN IF key_weights.kind = "raised" THEN {key_weights}
       ELSE IF sort_ascending = None
       THEN {Returned(Series(Slice(key_weights.value, num_keys)))}
       ELSE {Returned(Series(Slice(sorted, num_keys))) :
                sorted \in sort_values(key_weights.value, sort_ascending.value)}

(***************************************************************************)
(* The arguments of show_topic_key_weights.  A topic-word-weights file of  *)
(* MALLET has a line "topic_id <TAB> key <TAB> weight" for every topic and *)
(* every word.                                                             *)
(***************************************************************************)
WeightsLine(n, i, weight, newline) ==
    FormatInt(n) \o <<"\t">> \o Word(i) \o <<"\t">> \o FormatInt(weight) \o LineEnd(newline)

TopicWordWeightsFile(components, newline) ==
    File(Concat([n \in 1..Len(components) |->
                   [i \in 1..Len(components[n]) |->
                       WeightsLine(n - 1, i, components[n][i],
                                   newline \/ n < Len(components) \/ i < Len(components[n]))]]))

KeyWeightsCall(topic_no, num_keys, model, vocabulary, topic_word_weights_file, sort_ascending) ==
    [op |-> "show_topic_key_weights", topic_no |-> topic_no, num_keys |-> num_keys,
     model |-> model, vocabulary |-> vocabulary,
     topic_word_weights_file |-> topic_word_weights_file,
     sort_ascending |-> sort_ascending]

\* The three ways of show_topic_key_weights: an lda model with the
\* vocabulary, a Gensim model alone, a topic-word-weights file alone.
InitKeyWeights ==
    /\ Idle
    /\ \E t \in 1..MaxTopics, v \in 1..MaxVocab, num_keys \in 1..MaxKeys :
        \E topic_no \in 0..(t - 1), sort_ascending \in {None, Bool(TRUE), Bool(FALSE)} :
          \/ \E first \in [1..v -> Weights], k \in 1..v :
               call = KeyWeightsCall(topic_no, num_keys,
                                     LDA(<<>>, <<>>, TopicWord(t, first, k)),
                                     List(Vocabulary(v)), None, sort_ascending)
          \/ \E class \in GensimClasses, k \in 1..v :
               call = KeyWeightsCall(topic_no, num_keys,
                                     Gensim(class,
                                            [n \in 1..t |->
                                                RankedTopic(Rotation(v, ((k + n - 2) % v) + 1))],
                                            <<>>),
                                     None, None, sort_ascending)
          \/ \E first \in [1..v -> Weights], k \in 1..v, newline \in BOOLEAN :
               call = KeyWeightsCall(topic_no, num_keys, None, None,
                                     TopicWordWeightsFile(TopicWord(t, first, k), newline),
                                     sort_ascending)

ShowTopicKeyWeights ==
    /\ pc = "ready"
    /\ call.op = "show_topic_key_weights"
    /\ outcome' \in show_topic_key_weights(call.topic_no, call.num_keys, call.model,
                                           call.vocabulary, call.topic_word_weights_file,
                                           call.sort_ascending)
    /\ pc' = "done"
    /\ UNCHANGED <<call, dirExists, files, pre>>

(***************************************************************************)
(* The three entry points called with any combination of a model, a        *)
(* vocabulary and a file: no model, an object of another class, an lda     *)
(* model or a Gensim model; with or without the vocabulary; with or        *)
(* without the file of the entry point.                                    *)
(***************************************************************************)
\* The weights of t topics over v words: word k weighs most in topic 1,
\* word k + 1 in topic 2, and so on.
RampComponents(t, v, k) ==
    [n \in 1..t |-> [i \in 1..v |-> IF i = ((k + n - 2) % v) + 1 THEN 2 ELSE 1]]

DispatchDocTopic(t) == [i \in 1..MaxDocs |-> [n \in 1..t |-> Prop(i, n)]]

DispatchModels(t, v) ==
    {None, OtherModel}
      \cup {LDA(RampComponents(t, v, k), DispatchDocTopic(t), RampComponents(t, v, k)) :
               k \in 1..v}
      \cup {Gensim(class, [n \in 1..t |-> RankedTopic(Rotation(v, ((k + n - 2) % v) + 1))],
                   GensimDocumentTopics(MaxDocs, t, {})) :
               class \in GensimClasses, k \in 1..v}

InitDispatch ==
    /\ Idle
    /\ \E t \in 1..MaxTopics, v \in 1..MaxVocab, num_keys \in 1..MaxKeys,
          with_vocabulary, with_file, newline \in BOOLEAN :
        \E model \in DispatchModels(t, v) :
          LET vocabulary == IF with_vocabulary THEN List(Vocabulary(v)) ELSE None
              Given(file) == IF with_file THEN file ELSE None
          IN \/ call = TopicsCall(model, vocabulary,
                                  Given(TopicKeysFile([n \in 1..t |-> Min(v, MaxKeys)], newline)),
                                  num_keys)
             \/ call = DocTopicsCall(TopicsTable(t), model,
                                     List([n \in 1..MaxDocs |-> DocLabel(n)]),
                                     Given(DocTopicsFile("easy", FALSE,
                                                         [n \in 1..MaxDocs |-> n], t, {},
                                                         FALSE, newline)),
                                     List([n \in 1..MaxDocs |-> Bow(n)]),
                                     num_keys, TRUE)
             \/ \E topic_no \in 0..(t - 1), sort_ascending \in {None, Bool(TRUE), Bool(FALSE)} :
                  call = KeyWeightsCall(topic_no, num_keys, model, vocabulary,
                                        Given(TopicWordWeightsFile(RampComponents(t, v, 1),
                                                                   newline)),
                                        sort_ascending)

NextKeyWeights == ShowTopicKeyWeights

SpecKeyWeights == InitKeyWeights /\ [][NextKeyWeights]_vars

NextDispatch == ShowTopics \/ ShowDocumentTopics \/ ShowTopicKeyWeights

SpecDispatch == InitDispatch /\ [][NextDispatch]_vars

(***************************************************************************)
(* Reading text back: the fields of a line, and the integer of a field.    *)
(***************************************************************************)
RECURSIVE SplitOn(_, _)
SplitOn(sep, line) ==
    IF \A i \in 1..Len(line) : line[i] # sep THEN <<line>>
    ELSE LET k == CHOOSE i \in 1..Len(line) :
                    line[i] = sep /\ \A j \in 1..(i - 1) : line[j] # sep
         IN <<SubSeq(line, 1, k - 1)>> \o SplitOn(sep, SubSeq(line, k + 1, Len(line)))

DigitValue(c) == CHOOSE d \in 0..9 : DigitChar[d + 1] = c

RECURSIVE ParseInt(_)
ParseInt(chars) ==
    IF Len(chars) = 1 THEN DigitValue(chars[1])
    ELSE 10 * ParseInt(SubSeq(chars, 1, Len(chars) - 1)) + DigitValue(chars[Len(chars)])

ParseFields(line) ==
    LET f == SplitOn(" ", line) IN [i \in 1..Len(f) |-> ParseInt(f[i])]

MaxOfSet(S) == CHOOSE x \in S : \A y \in S : y <= x

(***************************************************************************)
(* save_document_term_matrix and _save_matrix_market: the claims.          *)
(***************************************************************************)
SaveDone == pc = "done" /\ call.op = "save_document_term_matrix"
SavedSparseCsv ==
    SaveDone /\ IsMultiIndex(call.document_term_matrix) /\ ~call.matrix_market
SavedMarket ==
    SaveDone /\ IsMultiIndex(call.document_term_matrix) /\ call.matrix_market
MarketLines == files["document_term_matrix.mm"]

\* C3: saving the sparse matrix as CSV raises the error for missing maps
\* whenever document_ids or type_ids is not supplied, and when both are
\* supplied it raises no error and writes document_ids.csv and type_ids.csv.
C3_SparseSaveNeedsBothMaps ==
    SavedSparseCsv =>
        IF call.document_ids = None \/ call.type_ids = None
        THEN outcome = Raised("ValueError")
        ELSE /\ outcome = Returned(None)
             /\ {"document_ids.csv", "type_ids.csv"} \subseteq DOMAIN files
             /\ files["document_ids.csv"] = series_to_csv(call.document_ids)
             /\ files["type_ids.csv"] = series_to_csv(call.type_ids)

\* C4: a call that ends in the error for missing maps leaves the files of
\* the output directory as they were before the call.
C4_ErrorLeavesNoFile ==
    (SaveDone /\ outcome = Raised("ValueError")) => files = pre

\* C5: the Matrix Market file of a non-empty sparse matrix is the banner
\* line, then the line "num_docs num_types sum_counts" of the largest
\* document_id, the largest type_id and the sum of the frequencies, then
\* one line per entry.
C5_MarketHeader ==
    (SavedMarket /\ call.document_term_matrix.rows # <<>>) =>
        LET rows == call.document_term_matrix.rows IN
        /\ outcome = Returned(None)
        /\ "document_term_matrix.mm" \in DOMAIN files
        /\ Len(MarketLines) = 2 + Len(rows)
        /\ MarketLines[1] = BannerLine
        /\ Len(SplitOn(" ", MarketLines[2])) = 3
        /\ ParseFields(MarketLines[2]) =
              <<MaxOfSet({rows[i][1] : i \in 1..Len(rows)}),
                MaxOfSet({rows[i][2] : i \in 1..Len(rows)}),
                SumSeq([i \in 1..Len(rows) |-> rows[i][3]])>>

\* C5, witness: the matrix {(0,0):1, (0,1):1, (1,0):1, (1,2):1} is written
\* with the header "1 2 4" and four lines after it.
C5_Witness ==
    /\ SavedMarket
    /\ call.document_term_matrix = ExampleMatrix
    /\ MarketLines[2] = <<"1", " ", "2", " ", "4">>
    /\ Len(MarketLines) = 6

\* C6: the lines after the header are one "document_id type_id value" line
\* per entry of the matrix, so reading them back gives the matrix, and the
\* third field of the header is the sum of the matrix's values.
C6_MarketRoundTrip ==
    SavedMarket =>
        LET rows == call.document_term_matrix.rows
            data == SubSeq(MarketLines, 3, Len(MarketLines))
        IN /\ Len(data) = Len(rows)
           /\ \A i \in 1..Len(data) : ParseFields(data[i]) = rows[i]
           /\ {ParseFields(data[i]) : i \in 1..Len(data)} = Range(rows)
           /\ ParseInt(SplitOn(" ", MarketLines[2])[3]) =
                 SumSeq([i \in 1..Len(rows) |-> rows[i][3]])

\* C6, witness: a matrix of two entries, one of frequency 10, written as
\* the lines "1 0 10" and "0 2 1" after a header whose sum is 11.
C6_Witness ==
    /\ SavedMarket
    /\ call.document_term_matrix.rows = <<<<1, 0, 10>>, <<0, 2, 1>>>>
    /\ SubSeq(MarketLines, 3, 4) =
          <<(<<"1", " ", "0", " ", "1", "0">>), (<<"0", " ", "2", " ", "1">>)>>
    /\ SplitOn(" ", MarketLines[2])[3] = <<"1", "1">>

\* C7: matrix_market=True with a matrix that has no MultiIndex ends in an
\* error.
C7_MarketNeedsSparse ==
    (SaveDone /\ call.matrix_market /\ ~IsMultiIndex(call.document_term_matrix))
        => outcome.kind = "raised"


(***************************************************************************)
(* doc2bow: the claims.                                                    *)
(***************************************************************************)
BowDone == pc = "done" /\ call.op = "doc2bow"
BowRows == call.document_term_matrix.rows
BowIds == {BowRows[i][1] : i \in 1..Len(BowRows)}

\* The (type_id, count) pairs of document d, in the row order of the matrix.
PairsOf(d) ==
    LET at == SortedSeq({i \in 1..Len(BowRows) : BowRows[i][1] = d})
    IN [k \in 1..Len(at) |-> <<BowRows[at[k]][2], BowRows[at[k]][3]>>]

\* The position of the first row of document d.
FirstRowOf(d) == CHOOSE i \in 1..Len(BowRows) :
    BowRows[i][1] = d /\ \A j \in 1..(i - 1) : BowRows[j][1] # d

\* C9 as stated: doc2bow has one entry per distinct document_id, in the
\* order in which the document_ids first appear in the rows, each entry the
\* (type_id, count) pairs of the document in row order.
C9_FirstAppearanceOrder ==
    BowDone =>
        /\ Len(outcome.value) = Cardinality(BowIds)
        /\ \A n \in 1..Len(outcome.value) : \E d \in BowIds :
              /\ outcome.value[n] = PairsOf(d)
              /\ Cardinality({e \in BowIds : FirstRowOf(e) < FirstRowOf(d)}) = n - 1

\* C9 as amended: doc2bow has one entry per distinct document_id, in
\* ascending order of document_id, each entry the (type_id, count) pairs of
\* the document in row order.
C9_AscendingIdOrder ==
    BowDone =>
        /\ Len(outcome.value) = Cardinality(BowIds)
        /\ \A n \in 1..Len(outcome.value) : \E d \in BowIds :
              /\ outcome.value[n] = PairsOf(d)
              /\ Cardinality({e \in BowIds : e < d}) = n - 1

\* C9, witness: document 1 appears before document 0 in the rows, and the
\* entry of document 0 comes first.
C9_Witness ==
    /\ BowDone
    /\ BowRows = <<<<1, 0, 10>>, <<0, 2, 1>>, <<0, 1, 10>>>>
    /\ outcome.value = <<(<<(<<2, 1>>), (<<1, 10>>)>>), (<<(<<0, 10>>)>>)>>

(***************************************************************************)
(* The choice between the model and the file: the claims.                  *)
(***************************************************************************)
DispatchDone ==
    pc = "done" /\ call.op \in {"show_topics", "show_document_topics", "show_topic_key_weights"}

\* The file argument of the entry point.
FileArgument ==
    IF call.op = "show_topics" THEN call.topic_keys_file
    ELSE IF call.op = "show_document_topics" THEN call.doc_topics_file
    ELSE call.topic_word_weights_file

RecognizedModel == call.model.kind \in {"LDA"} \cup GensimClasses

\* C1: a call of show_topics, show_document_topics or show_topic_key_weights
\* that is given both a model (an lda model or a Gensim model) and the file
\* of the entry point ends in an error; it returns no table.
C1_ModelAndFileIsError ==
    (DispatchDone /\ RecognizedModel /\ FileArgument # None) => outcome.kind = "raised"

\* C2: a call of show_topics, show_document_topics or show_topic_key_weights
\* that is given neither a model of a recognized class nor the file of the
\* entry point ends in an error; it does not return.
C2_NeitherIsError ==
    (DispatchDone /\ ~RecognizedModel /\ FileArgument = None) => outcome.kind = "raised"

(***************************************************************************)
(* show_topics: the claims.                                                *)
(***************************************************************************)
TopicsDone == pc = "done" /\ call.op = "show_topics"

\* The number of topics the arguments describe, and of keys they hold for
\* every topic.
DescribedTopics ==
    IF call.model.kind = "LDA" THEN Len(call.model.topic_word_)
    ELSE IF call.model.kind \in GensimClasses THEN call.model.num_topics
    ELSE Len(call.topic_keys_file.lines)

AvailableKeys ==
    IF call.model.kind = "LDA" THEN Len(call.model.topic_word_[1])
    ELSE IF call.model.kind \in GensimClasses THEN Len(call.model.topics[1])
    ELSE IF call.topic_keys_file.lines = <<>> THEN 0
    ELSE LET lines == call.topic_keys_file.lines
             KeyCount(n) == Len(SplitOn(" ", rstrip(SplitOn("\t", lines[n])[3])))
         IN KeyCount(CHOOSE n \in 1..Len(lines) : \A m \in 1..Len(lines) : KeyCount(n) <= KeyCount(m))

\* C8: for an lda model with its vocabulary, for a Gensim model and for a
\* topic-keys file alike, show_topics with num_keys = K for T topics returns
\* a table of T rows and of the K columns "Key 0" .. "Key K-1".
C8_TopicTableShape ==
    (TopicsDone /\ DescribedTopics >= 1 /\ call.num_keys <= AvailableKeys) =>
        /\ outcome.kind = "returned"
        /\ outcome.value.kind = "DataFrame"
        /\ Len(outcome.value.index) = DescribedTopics
        /\ Len(outcome.value.data) = DescribedTopics
        /\ outcome.value.columns = [i \in 1..call.num_keys |-> <<"Key", " ">> \o FormatInt(i - 1)]
        /\ \A t \in 1..DescribedTopics : Len(outcome.value.data[t]) = call.num_keys

(***************************************************************************)
(* show_document_topics: the claims.                                       *)
(***************************************************************************)
DocTopicsDone == pc = "done" /\ call.op = "show_document_topics"

\* The proportion of topic t (from 1) in the d-th document of the call, as
\* the model gives it: doc_topic_[d][t] of lda; of Gensim the proportion
\* that get_document_topics pairs with the topic, and 0 for a topic it omits.
ModelProportion(t, d) ==
    IF call.model.kind = "LDA" THEN call.model.doc_topic_[d][t]
    ELSE LET pairs == call.model.document_topics[call.doc2bow.items[d]] IN
         IF \E k \in 1..Len(pairs) : pairs[k][1] = t - 1
         THEN pairs[CHOOSE k \in 1..Len(pairs) : pairs[k][1] = t - 1][2]
         ELSE 0

\* C10: for an lda model and for a Gensim model, show_document_topics
\* returns a table of T rows whose columns are the document labels of the
\* caller, in the caller's order, and whose entry (t, d) is the model's
\* proportion of topic t in the d-th document, 0.0 for a topic that Gensim
\* omits for the document.
C10_DocumentTopicsTable ==
    (DocTopicsDone /\ call.model.kind \in {"LDA"} \cup GensimClasses) =>
        /\ outcome.kind = "returned"
        /\ outcome.value.kind = "DataFrame"
        /\ outcome.value.columns = call.document_labels.items
        /\ Len(outcome.value.index) = Len(call.topics.data)
        /\ Len(outcome.value.data) = Len(call.topics.data)
        /\ \A t \in 1..Len(outcome.value.data) :
              /\ Len(outcome.value.data[t]) = Len(call.document_labels.items)
              /\ \A d \in 1..Len(call.document_labels.items) :
                    outcome.value.data[t][d] = ModelProportion(t, d)

\* C10, witness: a Gensim model, the labels document_two, document_one in
\* this order, topic 0 omitted for document_two and topic 1 for document_one.
C10_Witness ==
    /\ DocTopicsDone
    /\ call.model.kind = "LdaModel"
    /\ outcome.kind = "returned"
    /\ outcome.value.columns = <<(<<"document_two">>), (<<"document_one">>)>>
    /\ outcome.value.data = <<(<<0, 11>>), (<<22, 0>>)>>

(***************************************************************************)
(* show_document_topics for a doc-topics file: the claims.                 *)
(***************************************************************************)
MalletDocTopicsDone ==
    DocTopicsDone /\ ~RecognizedModel /\ call.doc_topics_file # None

DocTopicsLines == call.doc_topics_file.lines

\* The lines that hold more than white space.
NonBlankLines == {n \in 1..Len(DocTopicsLines) : lstrip(DocTopicsLines[n]) # <<>>}

FirstNonBlankLine == CHOOSE n \in NonBlankLines : \A m \in NonBlankLines : n <= m

\* The file starts, after blank lines, with a line that starts with #.
CommentedLayout ==
    NonBlankLines # {} /\ startswith(lstrip(DocTopicsLines[FirstNonBlankLine]), "#")

\* What the processing of the lines `rest` as lines of topic/share pairs
\* ends in.
SparseProcessing(rest, index) ==
    LET bad == {n \in 1..Len(rest) : SparseLineError(rest[n]) # "none"} IN
    IF bad # {} THEN Raised(SparseLineError(rest[CHOOSE n \in bad : \A m \in bad : n <= m]))
    ELSE sparse_format_table(rest, index)

\* C11: the parser of a doc-topics file handles the file by its first
\* non-blank line alone: as lines of topic/share pairs when that line starts
\* with #, as the easy layout otherwise, whatever blank lines come first and
\* whatever easy_file_format the caller gives.
C11_LayoutFromFirstNonBlankLine ==
    MalletDocTopicsDone =>
        outcome = IF CommentedLayout
                  THEN SparseProcessing(SubSeq(DocTopicsLines, FirstNonBlankLine + 1,
                                               Len(DocTopicsLines)),
                                        TopicLabels(call.topics, call.num_keys))
                  ELSE read_easy_format(call.doc_topics_file,
                                        TopicLabels(call.topics, call.num_keys))

\* The lines of a file whose first line starts with #, after that line, as
\* their fields.
PairLineFields ==
    [n \in 1..(Len(DocTopicsLines) - 1) |-> SplitOn("\t", rstrip(DocTopicsLines[n + 1]))]

\* The labels of the documents of such a file, directory and extension
\* stripped, in sorted order.
SortedFileLabels ==
    LET labels == [n \in 1..Len(PairLineFields) |-> StripLabel(PairLineFields[n][2])]
    IN [k \in 1..Len(labels) |->
          labels[CHOOSE i \in 1..Len(labels) :
              Cardinality({j \in 1..Len(labels) :
                  StrLess(labels[j], labels[i]) \/ (labels[j] = labels[i] /\ j < i)}) = k - 1]]

\* The share the file lists for the topic (from 0) and the document, 0 when
\* it lists none.
ListedShare(topic, label) ==
    LET n == CHOOSE n \in 1..Len(PairLineFields) : StripLabel(PairLineFields[n][2]) = label
        fields == PairLineFields[n]
        at == {k \in 1..((Len(fields) - 2) \div 2) : ParseInt(fields[2 * k + 1]) = topic}
    IN IF at = {} THEN 0 ELSE ParseInt(fields[2 * (CHOOSE k \in at : TRUE) + 2])

\* C12: for a doc-topics file of a # line and lines of topic/share pairs,
\* read as such, the parser returns the table of T rows whose columns are
\* the document labels, path and extension stripped, in sorted order, and
\* whose entry (topic, document) is the share the file lists for the pair,
\* 0 when it lists none.
C12_SparseLayoutTable ==
    (/\ MalletDocTopicsDone
     /\ Len(DocTopicsLines) > 1
     /\ startswith(DocTopicsLines[1], "#")
     /\ ~call.easy_file_format) =>
        /\ outcome.kind = "returned"
        /\ outcome.value.kind = "DataFrame"
        /\ outcome.value.columns = SortedFileLabels
        /\ Len(outcome.value.data) = Len(call.topics.data)
        /\ \A t \in 1..Len(outcome.value.data) :
              outcome.value.data[t] =
                  [d \in 1..Len(SortedFileLabels) |-> ListedShare(t - 1, SortedFileLabels[d])]

\* The non-blank lines of the file, as their fields.
EasyLineFields ==
    LET kept == SelectSeq(DocTopicsLines, LAMBDA line : lstrip(line) # <<>>)
    IN [n \in 1..Len(kept) |-> SplitOn("\t", rstrip(kept[n]))]

\* The label of the document a path of the file names: the path without
\* its directory and its extension.
LabelOfPath(path) == <<CHOOSE x \in Range(DocLabelPool) : x \in Range(path)>>

\* C13: for a doc-topics file in the easy layout, of D lines with T weights
\* each, the parser returns the table whose rows are the index labels in
\* order, whose columns are the labels of the documents, directory and
\* extension stripped, in the order of the file, and whose entry (t, d) is
\* the t-th weight of line d.
C13_EasyLayoutTable ==
    (MalletDocTopicsDone /\ ~CommentedLayout /\ NonBlankLines # {}) =>
        /\ outcome.kind = "returned"
        /\ outcome.value.kind = "DataFrame"
        /\ outcome.value.index = TopicLabels(call.topics, call.num_keys)
        /\ outcome.value.columns =
              [d \in 1..Len(EasyLineFields) |-> LabelOfPath(EasyLineFields[d][2])]
        /\ Len(outcome.value.data) = Len(call.topics.data)
        /\ \A t \in 1..Len(outcome.value.data) :
              outcome.value.data[t] =
                  [d \in 1..Len(EasyLineFields) |-> ParseInt(EasyLineFields[d][t + 2])]

\* C13, witness: the file of corpus/document_two.txt with the weights 21, 22
\* and of corpus/document_one.txt with 11, 12 gives the columns
\* document_two, document_one and the rows 21, 11 and 22, 12.
C13_Witness ==
    /\ MalletDocTopicsDone
    /\ ~CommentedLayout
    /\ \E n \in 1..Len(DocTopicsLines) : "txt" \in Range(DocTopicsLines[n])
    /\ outcome.kind = "returned"
    /\ outcome.value.columns = <<(<<"document_two">>), (<<"document_one">>)>>
    /\ outcome.value.data = <<(<<21, 11>>), (<<22, 12>>)>>

(***************************************************************************)
(* show_topics for an lda model: the claims.                               *)
(***************************************************************************)
LdaTopicsDone ==
    /\ TopicsDone
    /\ call.model.kind = "LDA"
    /\ call.vocabulary # None
    /\ call.num_keys <= Len(call.vocabulary.items)

\* The place of a word in the vocabulary of the call.
PositionOf(word) ==
    CHOOSE i \in 1..Len(call.vocabulary.items) : call.vocabulary.items[i] = word

\* The weight of a word in topic t (from 1).
WeightOf(t, word) == call.model.topic_word_[t][PositionOf(word)]

\* C14, as the code has it: for an lda model of T topics over V words and
\* 1 <= num_keys <= V, row t of the table of show_topics holds num_keys
\* different words of the vocabulary, no word left out weighs more in
\* topic t than a word of the row, and the weights along the row do not
\* increase.  The order of words of equal weight is not determined.
C14_TopKeysDescending ==
    LdaTopicsDone =>
        /\ outcome.kind = "returned"
        /\ Len(outcome.value.data) = Len(call.model.topic_word_)
        /\ \A t \in 1..Len(outcome.value.data) :
              LET row == outcome.value.data[t] IN
              /\ Len(row) = call.num_keys
              /\ \A j \in 1..Len(row) : row[j] \in Range(call.vocabulary.items)
              /\ \A i, j \in 1..Len(row) : i < j => row[i] # row[j]
              /\ \A j \in 1..(Len(row) - 1) : WeightOf(t, row[j]) >= WeightOf(t, row[j + 1])
              /\ \A w \in Range(call.vocabulary.items) \ Range(row) :
                    \A j \in 1..Len(row) : WeightOf(t, w) <= WeightOf(t, row[j])

\* C14: as C14_TopKeysDescending, and words of equal weight stand in the
\* order of the vocabulary, the lower place first: row t is the start of
\* the vocabulary sorted by falling weight and, for equal weights, by
\* rising place.
C14_TiesInVocabularyOrder ==
    LdaTopicsDone =>
        /\ outcome.kind = "returned"
        /\ \A t \in 1..Len(outcome.value.data) :
              LET row == outcome.value.data[t]
                  Before(a, b) ==
                      \/ WeightOf(t, a) > WeightOf(t, b)
                      \/ WeightOf(t, a) = WeightOf(t, b) /\ PositionOf(a) < PositionOf(b)
              IN /\ Len(row) = call.num_keys
                 /\ \A j \in 1..Len(row) :
                       /\ row[j] \in Range(call.vocabulary.items)
                       /\ Cardinality({w \in Range(call.vocabulary.items) :
                                          Before(w, row[j])}) = j - 1

\* C14, witness: the words this, is, document with the weights 2, 1, 1 in
\* topic 0 and num_keys = 3 give the row this, document, is.
C14_Witness ==
    /\ LdaTopicsDone
    /\ call.num_keys = 3
    /\ call.model.topic_word_[1] = <<2, 1, 1>>
    /\ outcome.kind = "returned"
    /\ outcome.value.data[1] = <<(<<"this">>), (<<"document">>), (<<"is">>)>>

(***************************************************************************)
(* _grouper: the claims.                                                   *)
(***************************************************************************)
GrouperDone == pc = "done" /\ call.op = "_grouper"

Groups == outcome.value.items

\* C15: for a sequence of length L and a group size N >= 1, _grouper
\* yields ceil(L / N) tuples of length N; tuple i (from 0) holds the
\* elements i*N .. i*N+N-1 of the sequence in order; fill values stand only
\* in the last tuple, in its last N - (L mod N) places when L mod N is not
\* 0, and nowhere when it is 0.
C15_GrouperChunks ==
    GrouperDone =>
        LET L == Len(call.iterable)
            N == call.n
        IN /\ Len(Groups) * N >= L
           /\ (Len(Groups) - 1) * N < L \/ (L = 0 /\ Len(Groups) = 0)
           /\ \A i \in 1..Len(Groups) :
                 /\ Len(Groups[i]) = N
                 /\ \A j \in 1..N :
                       IF (i - 1) * N + j <= L
                       THEN Groups[i][j] = call.iterable[(i - 1) * N + j]
                       ELSE /\ Groups[i][j] = call.fillvalue
                            /\ i = Len(Groups)
                            /\ L % N # 0
                            /\ j > L % N

\* C15, witness: three elements in groups of two give a full tuple and a
\* tuple of the third element and the fill value.
C15_Witness ==
    /\ GrouperDone
    /\ call.n = 2
    /\ call.iterable = <<Str(<<"0">>), Str(<<"1">>), Str(<<"1">>)>>
    /\ call.fillvalue = None
    /\ Groups = <<(<<Str(<<"0">>), Str(<<"1">>)>>), (<<Str(<<"1">>), None>>)>>

(***************************************************************************)
(* show_topics for a topic-keys file: the claims.                          *)
(***************************************************************************)
MalletTopicsDone ==
    TopicsDone /\ ~RecognizedModel /\ call.topic_keys_file # None

\* The number of keys that line n of the topic-keys file lists.
KeysListed(n) ==
    Len(SplitOn(" ", rstrip(SplitOn("\t", call.topic_keys_file.lines[n])[3])))

UnevenKeys ==
    \E n, m \in 1..Len(call.topic_keys_file.lines) : KeysListed(n) # KeysListed(m)

\* C16: parsing a topic-keys file whose topics do not all list the same
\* number of keys ends in an error, whether a later topic lists more keys
\* than the first or fewer; no table with a cut or filled row is returned.
C16_UnevenKeysIsError ==
    (MalletTopicsDone /\ UnevenKeys) => outcome.kind = "raised"

(***************************************************************************)
(* show_topic_key_weights for an lda model: the claims.                    *)
(***************************************************************************)
LdaKeyWeightsDone ==
    /\ pc = "done"
    /\ call.op = "show_topic_key_weights"
    /\ call.model.kind = "LDA"
    /\ call.vocabulary # None
    /\ call.topic_word_weights_file = None

\* The num_keys first words of the vocabulary, each with its weight in the
\* row topic_no of components_.
FirstKeyWeights ==
    [i \in 1..Min(call.num_keys, Len(call.vocabulary.items)) |->
        <<call.vocabulary.items[i], call.model.components_[call.topic_no + 1][i]>>]

\* C17: for an lda model with its vocabulary, show_topic_key_weights
\* without sort_ascending returns the num_keys first words of the
\* vocabulary with the num_keys first weights of row topic_no, in the order
\* of the vocabulary; with sort_ascending it returns the same pairs in the
\* order of their weights, rising or falling as asked; the result has at
\* most num_keys entries.
C17_LdaKeyWeights ==
    LdaKeyWeightsDone =>
        /\ outcome.kind = "returned"
        /\ outcome.value.kind = "Series"
        /\ Len(outcome.value.items) <= call.num_keys
        /\ IF call.sort_ascending = None
           THEN outcome.value.items = FirstKeyWeights
           ELSE LET items == outcome.value.items IN
                /\ Len(items) = Len(FirstKeyWeights)
                /\ Range(items) = Range(FirstKeyWeights)
                /\ \A k \in 1..(Len(items) - 1) :
                      IF call.sort_ascending.value
                      THEN items[k][2] <= items[k + 1][2]
                      ELSE items[k][2] >= items[k + 1][2]

\* C17, witness: the words this, is, document with the weights 1, 2, 2,
\* num_keys = 2 and sort_ascending = False give is: 2, this: 1.
C17_Witness ==
    /\ LdaKeyWeightsDone
    /\ call.num_keys = 2
    /\ call.sort_ascending = Bool(FALSE)
    /\ call.model.components_[call.topic_no + 1] = <<1, 2, 2>>
    /\ outcome.kind = "returned"
    /\ outcome.value.items = <<(<<(<<"is">>), 2>>), (<<(<<"this">>), 1>>)>>
====
